---- MODULE Spec2Model ----
(***************************************************************************)
(* Model of nanalysis/num_methods.py (class NumMethods): the adaptive      *)
(* Simpson integrator simp_adpt, the adaptive two-point Gaussian           *)
(* quadrature gquad_adpt and the composite trapezoid rule trap_comp.       *)
(*                                                                         *)
(* Real numbers are modelled in exact arithmetic as elements of the field  *)
(* Q(sqrt 3): the triple <<p, q, d>> stands for (p + q*sqrt(3)) / d with   *)
(* d > 0 and gcd(p, q, d) = 1.  sqrt(3) is needed for the Gauss nodes.     *)
(***************************************************************************)
EXTENDS Integers, Sequences, FiniteSets, TLC

(* ---------------------------- bounds ----------------------------------- *)
\* largest explicit max-depth argument n_0 that is explored
MaxN0 == 3
\* largest explicit panel count n of trap_comp that is explored
MaxPanels == 3

(* ------------------------ exact arithmetic ------------------------------ *)
\* The arithmetic is written as functions, which are applied to values, with
\* operators of the usual shape as their front ends.
AbsInt(n) == IF n < 0 THEN -n ELSE n
SgnInt(n) == IF n > 0 THEN 1 ELSE IF n < 0 THEN -1 ELSE 0

gcd[m \in Nat, n \in Nat] == IF n = 0 THEN m ELSE gcd[n, m % n]
GCD(m, n) == gcd[m, n]
LCM(m, n) == (m \div GCD(m, n)) * n

\* normal form of (p + q*sqrt3)/d, d > 0
norm[p \in Int, q \in Int, d \in Nat] ==
    LET g == gcd[gcd[AbsInt(p), AbsInt(q)], d]
    IN  <<p \div g, q \div g, d \div g>>
Norm(p, q, d) == norm[p, q, d]

\* the number field
Q3 == Int \X Int \X Nat

Num(n) == <<n, 0, 1>>
Rat(n, d) == Norm(n, 0, d)
Zero == Num(0)

add[x \in Q3, y \in Q3] ==
    LET d == LCM(x[3], y[3])
        u == d \div x[3]
        v == d \div y[3]
    IN  Norm(x[1] * u + y[1] * v, x[2] * u + y[2] * v, d)
Add(x, y) == add[x, y]

neg[x \in Q3] == <<-x[1], -x[2], x[3]>>
Neg(x) == neg[x]
Sub(x, y) == Add(x, Neg(y))

mul[x \in Q3, y \in Q3] ==
    Norm(x[1] * y[1] + 3 * x[2] * y[2], x[1] * y[2] + x[2] * y[1], x[3] * y[3])
Mul(x, y) == mul[x, y]

\* x / k for a positive integer k
divInt[x \in Q3, k \in Nat] == Norm(x[1], x[2], x[3] * k)
DivInt(x, k) == divInt[x, k]
\* k * x for an integer k
scale[k \in Int, x \in Q3] == Norm(k * x[1], k * x[2], x[3])
Scale(k, x) == scale[k, x]

\* sign of p + q*sqrt3
sign[x \in Q3] ==
    LET p == x[1]
        q == x[2]
    IN  IF SgnInt(p) = SgnInt(q) THEN SgnInt(p)
        ELSE IF q = 0 THEN SgnInt(p)
        ELSE IF p = 0 THEN SgnInt(q)
        ELSE IF p * p > 3 * q * q THEN SgnInt(p) ELSE SgnInt(q)
Sign(x) == sign[x]

\* n1/d1 < n2/d2 for d1, d2 > 0, by comparing continued-fraction expansions
ratLess[n1 \in Int, d1 \in Nat, n2 \in Int, d2 \in Nat] ==
    LET q1 == n1 \div d1
        q2 == n2 \div d2
        r1 == n1 % d1
        r2 == n2 % d2
    IN  IF q1 # q2 THEN q1 < q2
        ELSE IF r2 = 0 THEN FALSE
        ELSE IF r1 = 0 THEN TRUE
        ELSE ratLess[d2, r2, d1, r1]
RatLess(n1, d1, n2, d2) == ratLess[n1, d1, n2, d2]

less[x \in Q3, y \in Q3] ==
    IF x[2] = 0 /\ y[2] = 0 THEN RatLess(x[1], x[3], y[1], y[3])
    ELSE Sign(Sub(x, y)) < 0
Less(x, y) == less[x, y]

abs[x \in Q3] == IF Sign(x) < 0 THEN Neg(x) ELSE x
Abs(x) == abs[x]

(* ------------------------- target functions ----------------------------- *)
\* abscissas of the jumps of the two step integrands
StepAt == Rat(5, 2)
StepAt2 == Num(2)

\* the integrands bound to self.func that are explored
Funcs == {"const", "sq", "quartic", "step", "step2"}
\* integrands that both Simpson's rule and the 2-point Gauss rule integrate exactly
ExactFuncs == {"const", "sq"}

\* self.func(x)
target[fn \in Funcs, x \in Q3] ==
    CASE fn = "const"   -> Num(1)
      [] fn = "sq"      -> Mul(x, x)
      [] fn = "quartic" -> Mul(Mul(x, x), Mul(x, x))
      [] fn = "step"    -> IF Less(x, StepAt) THEN Num(1) ELSE Num(2)
      [] fn = "step2"   -> IF Less(x, StepAt2) THEN Num(1) ELSE Num(2)
F(fn, x) == target[fn, x]

(* ----------------------------- inputs ----------------------------------- *)
Intervals == {<<Num(0), Num(3)>>, <<Num(0), Num(4)>>}
Tols == {Zero, Rat(1, 128), Rat(1, 16), Num(1)}

\* default arguments of the signatures
Default_n_0 == 20
SimpTolDefault == Rat(1, 100000)
GquadTolDefault == Rat(1, 10000000)

VARIABLES
    op,         \* the method that is called
    func,       \* self.func, bound by __init__
    a, b,       \* integration bounds
    tol, n_0,   \* tolerance and max depth of the call (after default binding)
    n,          \* panel count of trap_comp
    pc,         \* "start", "loop", "gquad", "trap", "done", "error"
    result,     \* returned value
    out,        \* lines printed so far
    evals,      \* number of self.func evaluations so far (counting wrapper)
    approx, i,  \* simp_adpt: running total and stack pointer / trap_comp: loop index
    e, a0, h, fa, fc, fb, s, l,   \* simp_adpt: the eight n_0-slot arrays
    pops,       \* simp_adpt: frames popped so far
    calls,      \* gquad_adpt: call stack of active invocations
    nodes,      \* gquad_adpt: invocations entered so far
    accepted,   \* gquad_adpt: invocations that took the accept branch
    mid_terms,  \* trap_comp accumulator
    leaves,     \* the intervals accepted or given up so far, in the order of the events
    round,      \* 1 during the first call on the object, 2 during the repeated call
    first       \* what the first call returned, printed and evaluated

vars == <<op, func, a, b, tol, n_0, n, pc, result, out, evals, approx, i,
          e, a0, h, fa, fc, fb, s, l, pops, calls, nodes, accepted, mid_terms,
          leaves, round, first>>

inputs == <<op, func, a, b, tol, n_0, n>>
simpArrays == <<e, a0, h, fa, fc, fb, s, l>>
simpVars == <<approx, e, a0, h, fa, fc, fb, s, l, pops>>
gquadVars == <<calls, nodes, accepted>>
\* what the caller keeps between the two calls
session == <<round, first>>

\* the argument tuples <<func, <<a, b>>, tol, n_0>> of simp_adpt calls
SimpCalls ==
    (Funcs \X Intervals \X (Tols \cup {SimpTolDefault}) \X (0..MaxN0))
    \cup (ExactFuncs \X Intervals \X {SimpTolDefault} \X {Default_n_0})

GquadCalls ==
    (Funcs \X Intervals \X (Tols \cup {GquadTolDefault}) \X (0..MaxN0))
    \cup (ExactFuncs \X Intervals \X {GquadTolDefault} \X {Default_n_0})

TrapCalls == Funcs \X Intervals \X (1..MaxPanels)

Idle ==
    /\ pc = "start"
    /\ result = Zero
    /\ out = <<>>
    /\ evals = 0
    /\ approx = Zero
    /\ i = 0
    /\ e = <<>> /\ a0 = <<>> /\ h = <<>> /\ fa = <<>>
    /\ fc = <<>> /\ fb = <<>> /\ s = <<>> /\ l = <<>>
    /\ pops = 0
    /\ calls = <<>>
    /\ nodes = 0
    /\ accepted = 0
    /\ mid_terms = Zero
    /\ leaves = <<>>

Init ==
    /\ \/ /\ op = "simp_adpt"
          /\ \E c \in SimpCalls :
                func = c[1] /\ a = c[2][1] /\ b = c[2][2] /\ tol = c[3] /\ n_0 = c[4]
          /\ n = 0
       \/ /\ op = "gquad_adpt"
          /\ \E c \in GquadCalls :
                func = c[1] /\ a = c[2][1] /\ b = c[2][2] /\ tol = c[3] /\ n_0 = c[4]
          /\ n = 0
       \/ /\ op = "trap_comp"
          /\ \E c \in TrapCalls :
                func = c[1] /\ a = c[2][1] /\ b = c[2][2] /\ n = c[3]
          /\ tol = Zero /\ n_0 = 0
    /\ Idle
    /\ round = 1
    /\ first = [result |-> Zero, out |-> <<>>, evals |-> 0]

(* ------------------------------ simp_adpt ------------------------------- *)
\* np.zeros(n_0): one row of the (8, n_0) array, indexed from 0
zeros(len) == [j \in 0..(len - 1) |-> Zero]

\* variant: the running total is kept on the object and carried into the next call
InitialApprox_kept == approx

\* line 183: the running total starts at 0 in every call
InitialApprox == Zero

\* variant: the whole-interval frame starts with tol itself
InitialTol_plain == tol

\* line 186: the local tolerance of the whole-interval frame, 10*tol
InitialTol == Scale(10, tol)

\* variant: a pass that samples the midpoint again
LoopEvals_resample == 2 + 1

\* lines 195-196: self.func is called twice in every pass of the loop
LoopEvals == 2

\* lines 183-193: allocate the arrays and fill the whole-interval frame
SimpStart ==
    /\ pc = "start" /\ op = "simp_adpt"
    /\ approx' = InitialApprox
    /\ i' = 0
    /\ pops' = 0
    /\ leaves' = <<>>
    /\ IF n_0 = 0
       THEN \* e[0] on a zero-length array: IndexError
            /\ pc' = "error"
            /\ e' = zeros(0) /\ a0' = zeros(0) /\ h' = zeros(0) /\ fa' = zeros(0)
            /\ fc' = zeros(0) /\ fb' = zeros(0) /\ s' = zeros(0) /\ l' = zeros(0)
            /\ UNCHANGED evals
       ELSE LET h0  == DivInt(Sub(b, a), 2)
                fa0 == F(func, a)
                fc0 == F(func, Add(a, h0))
                fb0 == F(func, b)
            IN  /\ e'  = [zeros(n_0) EXCEPT ![0] = InitialTol]
                /\ a0' = [zeros(n_0) EXCEPT ![0] = a]
                /\ h'  = [zeros(n_0) EXCEPT ![0] = h0]
                /\ fa' = [zeros(n_0) EXCEPT ![0] = fa0]
                /\ fc' = [zeros(n_0) EXCEPT ![0] = fc0]
                /\ fb' = [zeros(n_0) EXCEPT ![0] = fb0]
                /\ s'  = [zeros(n_0) EXCEPT ![0] =
                             DivInt(Mul(h0, Add(fa0, Add(Scale(4, fc0), fb0))), 3)]
                /\ l'  = [zeros(n_0) EXCEPT ![0] = Num(1)]
                /\ evals' = evals + 3
                /\ pc' = "loop"
    /\ UNCHANGED <<inputs, session, result, out, gquadVars, mid_terms>>

\* lines 195-198: the two quarter-point samples and the half-interval estimates
\* of the frame on top of the stack (meaningful when i > -1)
fd == F(func, Add(a0[i], DivInt(h[i], 2)))
fe == F(func, Add(a0[i], DivInt(Scale(3, h[i]), 2)))
s1 == DivInt(Mul(h[i], Add(fa[i], Add(Scale(4, fd), fc[i]))), 6)
s2 == DivInt(Mul(h[i], Add(fc[i], Add(Scale(4, fe), fb[i]))), 6)

\* line 209: the accept test of the frame on top of the stack
SimpAcceptTest == Less(Abs(Sub(Add(s1, s2), s[i])), e[i])
\* variant: the depth test written with > instead of >=
SimpDepthTest_gt == ~ Less(l[i], Num(n_0 + 1))

\* line 211: the depth test of the frame on top of the stack
SimpDepthTest == ~ Less(l[i], Num(n_0))

\* the record kept of the frame on top of the stack when it is accepted or given up
SimpLeaf(kind) ==
    [lo |-> a0[i], hi |-> Add(a0[i], Scale(2, h[i])), kind |-> kind,
     tol |-> e[i], err |-> Abs(Sub(Add(s1, s2), s[i])), est |-> Add(s1, s2)]

\* lines 194-210: pop a frame and accept it
SimpAccept ==
    /\ pc = "loop" /\ i > -1
    /\ SimpAcceptTest
    /\ approx' = Add(approx, Add(s1, s2))
    /\ i' = i - 1
    /\ pops' = pops + 1
    /\ leaves' = Append(leaves, SimpLeaf("accepted"))
    /\ evals' = evals + LoopEvals
    /\ UNCHANGED <<inputs, session, pc, result, out, simpArrays, gquadVars, mid_terms>>

\* variant: the exhausted frame's estimate is added before returning
SimpExhaustedResult_add == Add(approx, Add(s1, s2))

\* line 213: the value returned when the depth is exhausted
SimpExhaustedResult == approx

\* lines 194-208, 211-213: pop a frame that is neither accepted nor divisible
SimpExhausted ==
    /\ pc = "loop" /\ i > -1
    /\ ~ SimpAcceptTest
    /\ SimpDepthTest
    /\ i' = i - 1
    /\ pops' = pops + 1
    /\ leaves' = Append(leaves, SimpLeaf("given up"))
    /\ evals' = evals + LoopEvals
    /\ out' = Append(out, "Level exceeded")
    /\ result' = SimpExhaustedResult
    /\ pc' = "done"
    /\ UNCHANGED <<inputs, session, approx, simpArrays, gquadVars, mid_terms>>

\* variant: the right half starts where the parent starts
RightStart_same == a0[i]

\* line 217: the start of the right half, v1 + v5
RightStart == Add(a0[i], h[i])

\* variant: the right half takes the left quarter-point sample as its midpoint
RightMid_fd == fd

\* line 219: the midpoint sample of the right half
RightMid == fe

\* variant: the halves inherit the tolerance of their parent
ChildTol_whole == e[i]

\* lines 222, 233: the local tolerance of both halves, v6/2
ChildTol == DivInt(e[i], 2)

\* lines 194-208, 214-235: pop a frame and push its right and its left half
SimpSplit ==
    /\ pc = "loop" /\ i > -1
    /\ ~ SimpAcceptTest
    /\ ~ SimpDepthTest
    /\ pops' = pops + 1
    /\ evals' = evals + LoopEvals
    /\ LET v1 == a0[i]
           v2 == fa[i]
           v3 == fc[i]
           v4 == fb[i]
           v5 == h[i]
           v6 == e[i]
           v7 == s[i]
           v8 == l[i]
           r  == i         \* slot of the right half (lines 215-224)
           t  == i + 1     \* slot of the left half (lines 226-235)
       IN  IF t >= n_0
           THEN \* line 228 writes past the end of the arrays: IndexError
                /\ a0' = [a0 EXCEPT ![r] = RightStart]
                /\ fa' = [fa EXCEPT ![r] = v3]
                /\ fc' = [fc EXCEPT ![r] = RightMid]
                /\ fb' = [fb EXCEPT ![r] = v4]
                /\ h'  = [h  EXCEPT ![r] = DivInt(v5, 2)]
                /\ e'  = [e  EXCEPT ![r] = ChildTol]
                /\ s'  = [s  EXCEPT ![r] = s2]
                /\ l'  = [l  EXCEPT ![r] = Add(v8, Num(1))]
                /\ i' = t
                /\ pc' = "error"
           ELSE /\ a0' = [a0 EXCEPT ![r] = RightStart, ![t] = v1]
                /\ fa' = [fa EXCEPT ![r] = v3, ![t] = v2]
                /\ fc' = [fc EXCEPT ![r] = RightMid, ![t] = fd]
                /\ fb' = [fb EXCEPT ![r] = v4, ![t] = v3]
                /\ h'  = [h  EXCEPT ![r] = DivInt(v5, 2), ![t] = DivInt(v5, 2)]
                /\ e'  = [e  EXCEPT ![r] = ChildTol, ![t] = ChildTol]
                /\ s'  = [s  EXCEPT ![r] = s2, ![t] = s1]
                /\ l'  = [l  EXCEPT ![r] = Add(v8, Num(1)), ![t] = Add(v8, Num(1))]
                /\ i' = t
                /\ pc' = "loop"
    /\ UNCHANGED <<inputs, session, leaves, result, out, approx, gquadVars, mid_terms>>

\* lines 194, 236: the stack is empty
SimpReturn ==
    /\ pc = "loop" /\ op = "simp_adpt" /\ ~ (i > -1)
    /\ result' = approx
    /\ pc' = "done"
    /\ UNCHANGED <<inputs, session, leaves, out, evals, approx, i, simpArrays, pops, gquadVars, mid_terms>>

(* ------------------------------ gquad_adpt ------------------------------ *)
\* np.sqrt(3)/3
Sqrt3Over3 == <<0, 1, 3>>

\* variant: the factor (b-a)/2 of the change of variables written as (b-a)
gquad_unscaled(fn, lo, hi) ==
    LET w  == Sub(hi, lo)
        x1 == DivInt(Add(Mul(w, Neg(Sqrt3Over3)), Add(lo, hi)), 2)
        x2 == DivInt(Add(Mul(w, Sqrt3Over3), Add(lo, hi)), 2)
    IN  Mul(Add(F(fn, x1), F(fn, x2)), w)

\* lines 251-252: two-point Gaussian quadrature on [lo, hi]
gquad(fn, lo, hi) ==
    LET w  == Sub(hi, lo)
        x1 == DivInt(Add(Mul(w, Neg(Sqrt3Over3)), Add(lo, hi)), 2)
        x2 == DivInt(Add(Mul(w, Sqrt3Over3), Add(lo, hi)), 2)
    IN  DivInt(Mul(Add(F(fn, x1), F(fn, x2)), w), 2)

\* the tol a recursive call receives: lines 280-281 pass a, c/b, level,
\* current_sum and n_0 but not tol, so the callee binds the default of line 254
RecursiveTol(t) == GquadTolDefault

\* an activation record of gquad_adpt; at is the position inside the body
Frame(lo, hi, lev, sum, depth, t) ==
    [a |-> lo, b |-> hi, level |-> lev, current_sum |-> sum,
     n_0 |-> depth, tol |-> t, at |-> "entry"]

top == calls[Len(calls)]

\* lines 270-273 of the invocation on top of the call stack
level1 == top.level + 1
one_gauss == gquad(func, top.a, top.b)
c == DivInt(Add(top.a, top.b), 2)
two_gauss == Add(gquad(func, top.a, c), gquad(func, c, top.b))

\* variant: the half-interval estimates reuse one sample of the whole-interval one
GquadEvals_reuse == 3 * 2 - 1

\* lines 271, 273 with 251: three calls of gquad, each calling self.func twice
GquadEvals == 3 * 2

\* variant: the depth test reads the counter before the increment of line 270
GquadDepthTest_noinc == top.level > top.n_0

\* line 274
GquadDepthTest == level1 > top.n_0
\* line 277
GquadAcceptTest == Less(Abs(Sub(one_gauss, two_gauss)), top.tol)

\* line 282 seen from the caller: the value comes back either to the
\* assignment of line 280, to the one of line 281, or to the outside caller
Return(val) ==
    LET rest == SubSeq(calls, 1, Len(calls) - 1)
    IN  IF rest = <<>>
        THEN /\ calls' = rest
             /\ result' = val
             /\ pc' = "done"
        ELSE LET caller == rest[Len(rest)]
                 next   == IF caller.at = "left" THEN "mid" ELSE "ret"
             IN  /\ calls' = [rest EXCEPT ![Len(rest)] =
                                 [caller EXCEPT !.current_sum = val, !.at = next]]
                 /\ UNCHANGED <<result, pc>>

\* the record kept of the invocation on top of the call stack when it accepts or gives up
GquadLeaf(kind) ==
    [lo |-> top.a, hi |-> top.b, kind |-> kind,
     tol |-> top.tol, err |-> Abs(Sub(one_gauss, two_gauss)), est |-> two_gauss]

\* the outside call gquad_adpt(a, b, n_0=n_0, tol=tol): level=0, current_sum=0
GquadCall ==
    /\ pc = "start" /\ op = "gquad_adpt"
    /\ calls' = <<Frame(a, b, 0, Zero, n_0, tol)>>
    /\ nodes' = 0
    /\ accepted' = 0
    /\ leaves' = <<>>
    /\ pc' = "gquad"
    /\ UNCHANGED <<inputs, session, result, out, evals, i, simpVars, mid_terms>>

\* variant: the exceeded branch returns 0 and loses what was accumulated before it
GquadExceededResult_zero == Zero

\* variant: the exceeded branch still adds its two-panel estimate
GquadExceededResult_add == Add(top.current_sum, two_gauss)

\* lines 274-275, 282: the value returned when the depth counter exceeds n_0
GquadExceededResult == top.current_sum

\* lines 270-275, 282: the depth counter exceeds n_0
GquadExceeded ==
    /\ pc = "gquad" /\ top.at = "entry"
    /\ GquadDepthTest
    /\ evals' = evals + GquadEvals
    /\ nodes' = nodes + 1
    /\ leaves' = Append(leaves, GquadLeaf("given up"))
    /\ out' = Append(out, "Max depth reached")
    /\ Return(GquadExceededResult)
    /\ UNCHANGED <<inputs, session, accepted, i, simpVars, mid_terms>>

\* lines 270-278, 282: the two-panel estimate is accepted
GquadAccept ==
    /\ pc = "gquad" /\ top.at = "entry"
    /\ ~ GquadDepthTest
    /\ GquadAcceptTest
    /\ evals' = evals + GquadEvals
    /\ nodes' = nodes + 1
    /\ accepted' = accepted + 1
    /\ leaves' = Append(leaves, GquadLeaf("accepted"))
    /\ Return(Add(top.current_sum, two_gauss))
    /\ UNCHANGED <<inputs, session, out, i, simpVars, mid_terms>>

\* lines 270-280: recurse on [a, c]
GquadRecurseLeft ==
    /\ pc = "gquad" /\ top.at = "entry"
    /\ ~ GquadDepthTest
    /\ ~ GquadAcceptTest
    /\ evals' = evals + GquadEvals
    /\ nodes' = nodes + 1
    /\ calls' = Append([calls EXCEPT ![Len(calls)] =
                           [top EXCEPT !.level = level1, !.at = "left"]],
                       Frame(top.a, c, level1, top.current_sum, top.n_0,
                             RecursiveTol(top.tol)))
    /\ UNCHANGED <<inputs, session, leaves, pc, result, out, accepted, i, simpVars, mid_terms>>

\* line 281: recurse on [c, b] with the accumulator the left recursion returned
GquadRecurseRight ==
    /\ pc = "gquad" /\ top.at = "mid"
    /\ calls' = Append([calls EXCEPT ![Len(calls)] = [top EXCEPT !.at = "right"]],
                       Frame(DivInt(Add(top.a, top.b), 2), top.b, top.level,
                             top.current_sum, top.n_0, RecursiveTol(top.tol)))
    /\ UNCHANGED <<inputs, session, leaves, pc, result, out, evals, nodes, accepted, i, simpVars, mid_terms>>

\* line 282 after both recursions
GquadReturn ==
    /\ pc = "gquad" /\ top.at = "ret"
    /\ Return(top.current_sum)
    /\ UNCHANGED <<inputs, session, leaves, out, evals, nodes, accepted, i, simpVars, mid_terms>>

(* ------------------------------ trap_comp ------------------------------- *)
\* line 109
trapezoid_rule(fn, lo, hi) ==
    Mul(DivInt(Sub(hi, lo), 2), Add(F(fn, lo), F(fn, hi)))

\* line 124
trap_h == DivInt(Sub(b, a), n)

\* range(n) of line 126: the first index the loop visits
TrapFirstIndex == 0

\* lines 124-125
TrapStart ==
    /\ pc = "start" /\ op = "trap_comp"
    /\ mid_terms' = Zero
    /\ i' = TrapFirstIndex
    /\ pc' = "trap"
    /\ UNCHANGED <<inputs, session, leaves, result, out, evals, approx, simpArrays, pops, gquadVars>>

\* lines 126-127: one iteration of the loop
TrapIter ==
    /\ pc = "trap" /\ i < n
    /\ mid_terms' = Add(mid_terms, F(func, Add(a, Scale(i, trap_h))))
    /\ i' = i + 1
    /\ evals' = evals + 1
    /\ UNCHANGED <<inputs, session, leaves, pc, result, out, approx, simpArrays, pops, gquadVars>>

\* line 128
TrapReturn ==
    /\ pc = "trap" /\ ~ (i < n)
    /\ result' = Mul(DivInt(trap_h, 2),
                     Add(F(func, a), Add(Scale(2, mid_terms), F(func, b))))
    /\ evals' = evals + 2
    /\ pc' = "done"
    /\ UNCHANGED <<inputs, session, leaves, out, approx, i, mid_terms, simpArrays, pops, gquadVars>>

(* ------------------------------ the caller ------------------------------ *)
\* the caller repeats the call on the same object with the same arguments;
\* nothing but the output capture and the evaluation counter is reset, so
\* whatever the first call left behind is still there
CallAgain ==
    /\ pc = "done" /\ round = 1
    /\ round' = 2
    /\ first' = [result |-> result, out |-> out, evals |-> evals]
    /\ pc' = "start"
    /\ out' = <<>>
    /\ evals' = 0
    /\ UNCHANGED <<inputs, result, approx, i, simpArrays, pops, gquadVars, mid_terms, leaves>>

(* --------------------------- specification ------------------------------ *)
Next ==
    \/ SimpStart
    \/ SimpAccept
    \/ SimpExhausted
    \/ SimpSplit
    \/ SimpReturn
    \/ GquadCall
    \/ GquadExceeded
    \/ GquadAccept
    \/ GquadRecurseLeft
    \/ GquadRecurseRight
    \/ GquadReturn
    \/ TrapStart
    \/ TrapIter
    \/ TrapReturn
    \/ CallAgain

Spec == Init /\ [][Next]_vars

\* the interpreter runs the single thread of a call to completion
FairSpec == Spec /\ WF_vars(Next)

(* ------------------------------ properties ------------------------------ *)
RECURSIVE Pow2(_)
Pow2(k) == IF k <= 0 THEN 1 ELSE 2 * Pow2(k - 1)

SimpCase == op = "simp_adpt" /\ n_0 >= 1
GquadCase == op = "gquad_adpt"
ErrSimp == Abs(Sub(Add(s1, s2), s[i]))

\* C1: every simp_adpt call with n_0 >= 1 returns, after at most 2^n_0 - 1 pops,
\* also when no frame ever meets its tolerance.
C1_SimpTerminates ==
    /\ [](SimpCase => pops <= Pow2(n_0) - 1)
    /\ (SimpCase ~> (pc = "done"))

\* a call in which every level below n_0 was split and every leaf was accepted
C1_Witness ==
    /\ SimpCase /\ pc = "done" /\ n_0 >= 3
    /\ pops = Pow2(n_0) - 1

\* C2: every gquad_adpt call with n_0 >= 0 returns; an invocation that has
\* recursed has a depth counter of at most n_0, so at most n_0 + 1 invocations
\* are nested; a call in which no invocation was accepted printed
\* "Max depth reached" at least once.
C2_GquadTerminates ==
    /\ [](GquadCase =>
            /\ Len(calls) <= n_0 + 1
            /\ \A k \in 1..Len(calls) :
                  calls[k].at # "entry" => calls[k].level <= calls[k].n_0)
    /\ [](GquadCase /\ pc = "done" /\ accepted = 0 =>
            \E k \in 1..Len(out) : out[k] = "Max depth reached")
    /\ (GquadCase ~> (pc = "done"))

\* a finished call, three levels deep, in which no interval met the tolerance
C2_Witness ==
    /\ GquadCase /\ pc = "done" /\ accepted = 0
    /\ n_0 >= 2 /\ nodes = Pow2(n_0 + 1) - 1
    /\ Len(out) = Pow2(n_0)

\* C3: when the popped frame fails the accept test and its depth is >= n_0,
\* simp_adpt prints "Level exceeded" once and returns the running total as it
\* was before the pop; the frames below stay on the stack untouched and no
\* error is raised.
C3_SimpExhaustedReturn ==
    [][(pc = "loop" /\ i > -1 /\ ~ Less(ErrSimp, e[i]) /\ ~ Less(l[i], Num(n_0)))
         => /\ pc' = "done"
            /\ result' = approx
            /\ approx' = approx
            /\ out' = <<"Level exceeded">>
            /\ i' = i - 1
            /\ simpArrays' = simpArrays
            /\ evals' = evals + 2]_vars

\* depth exhausted with a non-zero running total and a frame left on the stack
C3_Witness ==
    /\ op = "simp_adpt" /\ pc = "done"
    /\ out = <<"Level exceeded">>
    /\ i >= 0
    /\ result # Zero
    /\ result = approx

\* C4: an invocation of gquad_adpt whose depth counter exceeds n_0 prints the
\* diagnostic and hands back exactly the current_sum it received, whether or
\* not its accept test would hold, and makes no recursive call.
C4_GquadExceededReturn ==
    [][(pc = "gquad" /\ top.at = "entry" /\ top.level + 1 > top.n_0)
         => /\ out' = Append(out, "Max depth reached")
            /\ Len(calls') = Len(calls) - 1
            /\ IF Len(calls) = 1
               THEN pc' = "done" /\ result' = top.current_sum
               ELSE calls'[Len(calls')].current_sum = top.current_sum]_vars

\* the whole interval of x^2 passes the accept test, yet with n_0 = 0 it is discarded
C4_Witness ==
    /\ GquadCase /\ pc = "done" /\ n_0 = 0
    /\ func = "sq" /\ tol = Num(1)
    /\ Less(Abs(Sub(gquad(func, a, b),
                    Add(gquad(func, a, DivInt(Add(a, b), 2)),
                        gquad(func, DivInt(Add(a, b), 2), b)))), tol)
    /\ out = <<"Max depth reached">>
    /\ result = Zero

\* 10*tol / 2^(lev-1): the local tolerance the code gives a frame of depth lev
LocalTol(lev) == DivInt(Scale(10, tol), Pow2(lev[1] - 1))

\* C5 (as stated): the whole-interval frame starts with tolerance tol, so a
\* frame of depth l is accepted exactly when |s1+s2-s| < tol / 2^(l-1).
C5_AcceptAgainstTol ==
    (SimpCase /\ pc = "loop" /\ i > -1)
        => (SimpAcceptTest <=> Less(ErrSimp, DivInt(tol, Pow2(l[i][1] - 1))))

\* C5 (amended): the whole-interval frame starts with tolerance 10*tol; every
\* frame on the stack of depth l carries 10*tol / 2^(l-1), and a popped frame
\* is accepted exactly when |s1+s2-s| < 10*tol / 2^(l-1).
C5_AcceptAgainstTenTol ==
    /\ [](SimpCase /\ pc = "loop" =>
            \A j \in 0..i : e[j] = LocalTol(l[j]))
    /\ [][(SimpCase /\ pc = "loop" /\ i > -1)
            => ((pc' = "loop" /\ i' = i - 1 /\ approx' = Add(approx, Add(s1, s2)))
                  <=> Less(ErrSimp, LocalTol(l[i])))]_vars

\* a frame of depth 2 whose error lies between tol/2 and 10*tol/2
C5_Witness ==
    /\ SimpCase /\ pc = "loop" /\ i > -1
    /\ l[i] = Num(2)
    /\ Less(ErrSimp, LocalTol(l[i]))
    /\ ~ Less(ErrSimp, DivInt(tol, 2))

\* C6 (as stated): every invocation of gquad_adpt, recursive ones included,
\* tests |one_gauss - two_gauss| against the tol the outside caller supplied,
\* and adds its two-panel estimate exactly when that test holds and the depth
\* counter does not exceed n_0.
C6_AcceptAgainstCallerTol ==
    [][(pc = "gquad" /\ top.at = "entry")
         => ((accepted' = accepted + 1)
               <=> (Less(Abs(Sub(one_gauss, two_gauss)), tol) /\ top.level + 1 <= n_0))]_vars

\* C7: at the loop head and at the return of simp_adpt the number of
\* self.func evaluations is 3 + 2 * (frames popped).
C7_EvalCount ==
    (SimpCase /\ pc \in {"loop", "done"}) => evals = 3 + 2 * pops

\* a call cut short by depth exhaustion after several subdivision steps
C7_Witness ==
    /\ SimpCase /\ pc = "done"
    /\ out = <<"Level exceeded">>
    /\ pops >= 4
    /\ evals = 3 + 2 * pops

\* C8: with n_0 >= 1 the stack pointer stays within -1 .. n_0 - 1 and no write
\* ever falls outside the n_0-slot arrays (no IndexError).
C8_StackBound ==
    SimpCase =>
        /\ pc # "error"
        /\ pc \in {"loop", "done"} =>
              /\ i >= -1 /\ i <= n_0 - 1
              /\ DOMAIN a0 = 0..(n_0 - 1)

\* all n_0 slots in use
C8_Witness ==
    /\ SimpCase /\ pc = "loop" /\ n_0 >= 3
    /\ i = n_0 - 1

\* C9: for f(x) = x^2 on [0,3] with the default tol and n_0, simp_adpt and
\* gquad_adpt both return exactly 9, accept the whole interval at the first
\* test and print nothing.
C9_SquareOnZeroThree ==
    (/\ pc = "done" /\ func = "sq" /\ a = Num(0) /\ b = Num(3)
     /\ n_0 = Default_n_0
     /\ \/ op = "simp_adpt" /\ tol = SimpTolDefault
        \/ op = "gquad_adpt" /\ tol = GquadTolDefault)
        => /\ result = Num(9)
           /\ out = <<>>
           /\ op = "simp_adpt" => pops = 1 /\ evals = 5
           /\ op = "gquad_adpt" => nodes = 1 /\ accepted = 1 /\ evals = 6

\* the gquad_adpt call of the example has returned 9
C9_Witness ==
    /\ pc = "done" /\ func = "sq" /\ a = Num(0) /\ b = Num(3)
    /\ n_0 = Default_n_0
    /\ op = "gquad_adpt" /\ tol = GquadTolDefault
    /\ result = Num(9)

\* the sum of trapezoid_rule over the first k of the n equal panels
RECURSIVE TrapPanelSum(_)
TrapPanelSum(k) ==
    IF k = 0 THEN Zero
    ELSE Add(TrapPanelSum(k - 1),
             trapezoid_rule(func, Add(a, Scale(k - 1, trap_h)), Add(a, Scale(k, trap_h))))

\* C10 (as stated): trap_comp(a, b, n) equals the sum of the single-panel
\* trapezoid rule over the n equal panels, hence c*(b-a) for a constant c.
C10_TrapCompIsPanelSum ==
    (op = "trap_comp" /\ pc = "done")
        => /\ result = TrapPanelSum(n)
           /\ func = "const" => result = Sub(b, a)

\* C11: a second call of simp_adpt or gquad_adpt on the same object with the
\* same arguments returns the same value and prints the same lines as the
\* first, with the same number of evaluations: nothing the first call wrote
\* (arrays, stack pointer, running total, depth counter) reaches the second.
C11_RepeatedCallAgrees ==
    (op \in {"simp_adpt", "gquad_adpt"} /\ round = 2 /\ pc = "done")
        => /\ result = first.result
           /\ out = first.out
           /\ evals = first.evals

\* the repeated simp_adpt call has returned, after a first call that left a
\* non-zero total, used stack slots and a diagnostic behind
C11_Witness ==
    /\ op = "simp_adpt" /\ round = 2 /\ pc = "done"
    /\ first.out = <<"Level exceeded">>
    /\ first.result # Zero
    /\ pops >= 4
    /\ result = first.result

\* the eight stored fields of slot j
SimpSlot(j) == <<a0[j], h[j], fa[j], fc[j], fb[j], e[j], s[j], l[j]>>

\* C12: when the popped frame (start a0, half-width h, tolerance e, depth l)
\* fails the accept test and l < n_0, nothing is added to the running total and
\* exactly two frames are pushed: the right half [a0+h, a0+2h] into the slot of
\* the parent and the left half [a0, a0+h] on top of it, each with half-width
\* h/2, tolerance e/2 and depth l+1; the frames below are untouched.
C12_SplitPushesRightThenLeft ==
    [][(pc = "loop" /\ i > -1 /\ ~ Less(ErrSimp, e[i]) /\ Less(l[i], Num(n_0)))
         => /\ pc' = "loop"
            /\ i' = i + 1
            /\ approx' = approx
            /\ leaves' = leaves
            /\ a0'[i] = Add(a0[i], h[i])
            /\ Add(a0'[i], Scale(2, h'[i])) = Add(a0[i], Scale(2, h[i]))
            /\ a0'[i + 1] = a0[i]
            /\ Add(a0'[i + 1], Scale(2, h'[i + 1])) = Add(a0[i], h[i])
            /\ \A j \in {i, i + 1} :
                  /\ h'[j] = DivInt(h[i], 2)
                  /\ e'[j] = DivInt(e[i], 2)
                  /\ l'[j] = Add(l[i], Num(1))
            /\ \A j \in 0..(i - 1) : SimpSlot(j)' = SimpSlot(j)]_vars

\* two splits in a row: the left half of a left half is on top of three frames
C12_Witness ==
    /\ op = "simp_adpt" /\ pc = "loop" /\ i = 2
    /\ l[2] = Num(3) /\ l[1] = Num(3) /\ l[0] = Num(2)
    /\ a0[2] = a /\ a0[1] = Add(a0[2], Scale(2, h[2]))
    /\ approx = Zero

\* the sum of the estimates of the accepted intervals among the first k leaves
RECURSIVE AcceptedSum(_)
AcceptedSum(k) ==
    IF k = 0 THEN Zero
    ELSE IF leaves[k].kind = "accepted"
         THEN Add(AcceptedSum(k - 1), leaves[k].est)
         ELSE AcceptedSum(k - 1)

\* the leaves are adjacent intervals that start at a, in the order of the events
LeavesContiguous ==
    /\ leaves # <<>> => leaves[1].lo = a
    /\ \A k \in 1..(Len(leaves) - 1) : leaves[k + 1].lo = leaves[k].hi

\* the right end of what the leaves cover so far
LeavesEnd == IF leaves = <<>> THEN a ELSE leaves[Len(leaves)].hi

\* C13: gquad_adpt visits the intervals left to right and threads the
\* accumulator: an invocation is entered with the sum of the estimates accepted
\* to its left, and the call returns the initial accumulator 0 plus the sum of
\* the two-panel estimates of exactly the accepted intervals; an interval given
\* up at the depth limit contributes nothing and the intervals to its right are
\* still visited, so that accepted and given-up intervals together tile [a, b].
C13_GquadSumsAcceptedLeaves ==
    (GquadCase /\ pc \in {"gquad", "done"})
        => /\ LeavesContiguous
           /\ (pc = "gquad" /\ top.at = "entry")
                 => top.current_sum = AcceptedSum(Len(leaves)) /\ top.a = LeavesEnd
           /\ pc = "done"
                 => result = AcceptedSum(Len(leaves)) /\ LeavesEnd = b

\* a finished call in which an accepted interval comes first, intervals given
\* up at the depth limit follow, and an accepted interval comes after them
C13_Witness ==
    /\ GquadCase /\ pc = "done"
    /\ \E j, k, m \in 1..Len(leaves) :
          /\ j < k /\ k < m
          /\ leaves[j].kind = "accepted" /\ leaves[j].est # Zero
          /\ leaves[k].kind = "given up"
          /\ leaves[m].kind = "accepted" /\ leaves[m].est # Zero
    /\ result = AcceptedSum(Len(leaves))


\* C14 as stated: at no point are more than n_0 invocations of gquad_adpt nested.
C14_NestingBoundedByN0 ==
    GquadCase => Len(calls) <= n_0

\* C14: the depth counter grows by exactly 1 per recursion level (the k-th
\* nested invocation holds level k - 1 on entry and k after line 270), and at
\* most n_0 + 1 invocations are nested: the invocation entered with level n_0
\* still runs lines 270-273 before the test of line 274 turns it back.
C14_NestingBoundedByN0PlusOne ==
    GquadCase
        => /\ Len(calls) <= n_0 + 1
           /\ \A k \in 1..Len(calls) :
                 /\ calls[k].level = (IF calls[k].at = "entry" THEN k - 1 ELSE k)
                 /\ calls[k].n_0 = n_0

\* the invocation number n_0 + 1 is active, below n_0 >= 2 suspended callers
C14_Witness ==
    /\ GquadCase /\ pc = "gquad" /\ n_0 >= 2
    /\ Len(calls) = n_0 + 1
    /\ top.at = "entry" /\ top.level = n_0

\* C15: every invocation of gquad_adpt, whether it accepts, recurses or is
\* turned back at the depth limit, costs 6 evaluations of the target function,
\* so the evaluations of a call are 6 times the invocations made so far; a
\* finished call with k accepted or given-up intervals made 2k - 1 invocations.
C15_GquadEvalCount ==
    (GquadCase /\ pc \in {"gquad", "done"})
        => /\ evals = 6 * nodes
           /\ pc = "done" => nodes = 2 * Len(leaves) - 1

\* a finished call with recursing, accepting and given-up invocations
C15_Witness ==
    /\ GquadCase /\ pc = "done"
    /\ nodes >= 7 /\ evals = 6 * nodes
    /\ \E j, k \in 1..Len(leaves) :
          leaves[j].kind = "accepted" /\ leaves[k].kind = "given up"

\* the interval of the frame in slot j ends where it starts plus twice its half-width
SlotEnd(j) == Add(a0[j], Scale(2, h[j]))

\* a call of simp_adpt that has returned without exhausting the depth
SimpNormalDone == SimpCase /\ pc = "done" /\ out = <<>>

\* a call of simp_adpt that has returned after exhausting the depth
SimpExhaustedDone == SimpCase /\ pc = "done" /\ out = <<"Level exceeded">>

\* C16: at every loop head of simp_adpt the accepted frames are adjacent
\* intervals of positive width covering a prefix [a, x] of [a, b], and the
\* frames on the stack, from the top slot i down to slot 0, are adjacent
\* intervals of positive width covering [x, b]; a call that returns normally
\* has accepted a partition of [a, b] and returns the sum of its estimates; a
\* call that exhausts the depth returns the sum of the estimates of the
\* accepted frames, which cover [a, a0] for the start a0 of the exhausted frame.
C16_SimpTiling ==
    /\ (SimpCase /\ pc = "loop")
          => /\ LeavesContiguous
             /\ \A k \in 1..Len(leaves) :
                   leaves[k].kind = "accepted" /\ Less(leaves[k].lo, leaves[k].hi)
             /\ approx = AcceptedSum(Len(leaves))
             /\ i = -1 => LeavesEnd = b
             /\ i > -1 => /\ a0[i] = LeavesEnd
                          /\ SlotEnd(0) = b
                          /\ \A j \in 1..i : SlotEnd(j) = a0[j - 1]
                          /\ \A j \in 0..i : Less(Zero, h[j])
    /\ SimpNormalDone
          => /\ LeavesContiguous /\ LeavesEnd = b
             /\ \A k \in 1..Len(leaves) : leaves[k].kind = "accepted"
             /\ result = AcceptedSum(Len(leaves))
    /\ SimpExhaustedDone
          => /\ LeavesContiguous
             /\ leaves[Len(leaves)].kind = "given up"
             /\ leaves[Len(leaves)].lo = a0[i + 1]
             /\ \A k \in 1..(Len(leaves) - 1) : leaves[k].kind = "accepted"
             /\ result = AcceptedSum(Len(leaves) - 1)

\* a loop head with two accepted frames behind and two frames on the stack
C16_Witness ==
    /\ SimpCase /\ pc = "loop"
    /\ i >= 1 /\ Len(leaves) >= 2
    /\ a0[i] = LeavesEnd /\ Less(a, a0[i])
    /\ SlotEnd(i) = a0[i - 1]

\* C17: every frame on the work stack of simp_adpt is self-consistent: its
\* samples are fa = f(a0), fc = f(a0+h), fb = f(a0+2h) for its own a0 and h,
\* and its estimate is s = h*(fa + 4*fc + fb)/3.
C17_FramesSelfConsistent ==
    (SimpCase /\ pc = "loop")
        => \A j \in 0..i :
              /\ fa[j] = F(func, a0[j])
              /\ fc[j] = F(func, Add(a0[j], h[j]))
              /\ fb[j] = F(func, SlotEnd(j))
              /\ s[j] = DivInt(Mul(h[j], Add(fa[j], Add(Scale(4, fc[j]), fb[j]))), 3)

\* the right half of a right half is on top of the stack, above the right half
\* of the whole interval; all its samples were taken over from its parent's pass
C17_Witness ==
    /\ SimpCase /\ pc = "loop"
    /\ i = 1 /\ l[1] = Num(3) /\ Len(leaves) >= 2
    /\ fa[1] # fc[1] /\ fc[1] # fb[1]
    /\ fc[1] = F(func, Add(a0[1], h[1]))

\* the sum of the local tolerances in slots 0..j of the stack
RECURSIVE StackTolSum(_)
StackTolSum(j) == IF j < 0 THEN Zero ELSE Add(StackTolSum(j - 1), e[j])

\* the sum of the local tolerances of the first k leaves
RECURSIVE LeafTolSum(_)
LeafTolSum(k) == IF k = 0 THEN Zero ELSE Add(LeafTolSum(k - 1), leaves[k].tol)

\* the sum of the errors |s1+s2-s| of the first k leaves
RECURSIVE LeafErrSum(_)
LeafErrSum(k) == IF k = 0 THEN Zero ELSE Add(LeafErrSum(k - 1), leaves[k].err)

\* C18: at every loop head of simp_adpt the local tolerances of the frames on
\* the stack and of the frames accepted so far add up to the tolerance of the
\* whole-interval frame, 10*tol; a call that returns normally has accepted
\* frames whose errors |s1+s2-s| add up to strictly less than that tolerance.
C18_TolerancesConserved ==
    /\ (SimpCase /\ pc = "loop")
          => Add(StackTolSum(i), LeafTolSum(Len(leaves))) = Scale(10, tol)
    /\ SimpNormalDone
          => /\ LeafTolSum(Len(leaves)) = Scale(10, tol)
             /\ Less(LeafErrSum(Len(leaves)), Scale(10, tol))

\* a normal return after two levels of splits, with accepted frames that each
\* carry a quarter of the initial tolerance and a non-zero total error
C18_Witness ==
    /\ SimpNormalDone /\ Len(leaves) >= 3
    /\ \A k \in 1..Len(leaves) : leaves[k].tol = DivInt(Scale(10, tol), 4)
    /\ LeafErrSum(Len(leaves)) # Zero
    /\ Less(LeafErrSum(Len(leaves)), Scale(10, tol))
====
